---- MODULE Spec2Model ----
(***************************************************************************)
(* Model of the EHS incident assistant (src/src/ehs_ai): the request       *)
(* handler incident_workflow, the evidence storage and the evidence        *)
(* endpoint, the evidence-analysis fan-out, the five-node LangGraph        *)
(* pipeline of IncidentWorkflowGraph and the NotificationService that the  *)
(* last node executes.                                                     *)
(***************************************************************************)
EXTENDS Integers, Sequences, FiniteSets, TLC

(***************************************************************************)
(* Bounds of the model.                                                    *)
(***************************************************************************)
NumTokens == 2    \* distinct values uuid4 may yield
MaxItems == 2     \* tickets (and emails) in a notification plan
MaxFiles == 2     \* evidence files uploaded with one request

\* The requests the process handles; "A" is the one the single-request
\* specifications follow.
Runs == {"A", "B"}
Tokens == 1..NumTokens

(***************************************************************************)
(* Optional values: None is the empty sequence, Some(x) a singleton.       *)
(***************************************************************************)
None == <<>>
Some(x) == <<x>>
IsNone(o) == Len(o) = 0
IsSome(o) == Len(o) = 1
The(o) == o[1]

EmptyMap == [k \in {} |-> 0]

(***************************************************************************)
(* schemas.py                                                              *)
(***************************************************************************)
TicketRequests ==
    { [title |-> "t1", description |-> "d", priority |-> "high"],
      [title |-> "t2", description |-> "d", priority |-> "low"] }

EmailRequests ==
    { [recipient |-> "r1", subject |-> "s", body |-> "b"],
      [recipient |-> "r2", subject |-> "s", body |-> "b"] }

SeqsUpTo(S, n) == UNION { [1..k -> S] : k \in 0..n }

NotificationPlans ==
    [tickets : SeqsUpTo(TicketRequests, MaxItems),
     emails : SeqsUpTo(EmailRequests, MaxItems)]

(***************************************************************************)
(* services/notifications.py                                               *)
(***************************************************************************)
\* Faulty variant: each receipt is put in front of the ones before it.
CreateTicketsReversed(plan, ids) ==
    [i \in 1..Len(plan.tickets) |->
        [ticket_id |-> <<"TCK", ids[i]>>,
         status |-> "created",
         request |-> plan.tickets[Len(plan.tickets) + 1 - i]]]

\* _create_tickets: one receipt per ticket of the plan, appended in the
\* order of iteration; ids[i] is what iteration i keeps of the uuid4 it
\* draws, its first eight hex digits (uuid4().hex[:8]).
CreateTickets(plan, ids) ==
    [i \in 1..Len(plan.tickets) |->
        [ticket_id |-> <<"TCK", ids[i]>>,
         status |-> "created",
         request |-> plan.tickets[i]]]

\* _send_emails: one receipt per email of the plan, in the order of
\* iteration; ids[i] is the first ten hex digits of the uuid4 of iteration i.
SendEmails(plan, ids) ==
    [i \in 1..Len(plan.emails) |->
        [recipient |-> plan.emails[i].recipient,
         status |-> "sent",
         request |-> plan.emails[i],
         message_id |-> <<"MSG", ids[i]>>]]

\* execute: tickets first, then emails, then the result record.
Execute(plan, tids, mids) ==
    [plan |-> plan,
     tickets |-> CreateTickets(plan, tids),
     emails |-> SendEmails(plan, mids),
     notes |-> "Tickets and emails processed via stub integrations."]

(***************************************************************************)
(* services/evidence.py                                                    *)
(***************************************************************************)
\* Characters of an uploaded file name, by what str.isalnum and the literal
\* set {".", "-", "_"} of _sanitize_filename say about them.  "e9" stands for
\* a non-ASCII letter (str.isalnum is true of it), "/" and " " for every
\* other character.
AsciiAlnum == {"a", "1"}
OtherAlnum == {"e9"}
Punct == {".", "-", "_"}
Chars == AsciiAlnum \cup OtherAlnum \cup Punct \cup {"/", " "}
IsAlnum(ch) == ch \in AsciiAlnum \cup OtherAlnum

\* The default names "evidence" of _write_file and _sanitize_filename.
DefaultName == <<"e", "v", "i", "d", "e", "n", "c", "e">>

RECURSIVE LStrip(_, _)
LStrip(s, set) ==
    IF s # <<>> /\ Head(s) \in set THEN LStrip(Tail(s), set) ELSE s

RECURSIVE RStrip(_, _)
RStrip(s, set) ==
    IF s # <<>> /\ s[Len(s)] \in set
    THEN RStrip(SubSeq(s, 1, Len(s) - 1), set)
    ELSE s

\* str.strip(chars)
Strip(s, set) == RStrip(LStrip(s, set), set)

\* _sanitize_filename
SanitizeFilename(name) ==
    LET allowed == [i \in 1..Len(name) |->
                       IF IsAlnum(name[i]) \/ name[i] \in Punct
                       THEN name[i] ELSE "_"]
        sanitized == Strip(allowed, {".", "_"})
    IN  IF sanitized # <<>> THEN sanitized ELSE DefaultName

\* Bounds of the storage model: max_bytes of EvidenceStorage and the size of
\* one upload.read chunk, scaled down (the code reads 1 MiB chunks against a
\* ceiling of 5 MiB).
MaxBytes == 3
ChunkSize == 2

\* Faulty variant: the ceiling is exclusive, a file of exactly max_bytes is
\* dropped.
RECURSIVE ReadLoopExclusive(_, _)
ReadLoopExclusive(left, total) ==
    LET chunk == IF left < ChunkSize THEN left ELSE ChunkSize
    IN  IF chunk = 0 THEN Some(total)
        ELSE IF total + chunk >= MaxBytes THEN None
        ELSE ReadLoopExclusive(left - chunk, total + chunk)

\* The chunk loop of _write_file: `left` bytes of the upload are unread and
\* `total` bytes were counted so far.  None when the ceiling is exceeded.
RECURSIVE ReadLoop(_, _)
ReadLoop(left, total) ==
    LET chunk == IF left < ChunkSize THEN left ELSE ChunkSize
    IN  IF chunk = 0 THEN Some(total)
        ELSE IF total + chunk > MaxBytes THEN None
        ELSE ReadLoop(left - chunk, total + chunk)

\* The bytes buffer.write has put into the target file when the chunk loop of
\* _write_file ends: every chunk that was counted without passing the ceiling
\* is written before the next one is read.
RECURSIVE BufferWritten(_, _, _)
BufferWritten(left, total, written) ==
    LET chunk == IF left < ChunkSize THEN left ELSE ChunkSize
    IN  IF chunk = 0 THEN written
        ELSE IF total + chunk > MaxBytes THEN written
        ELSE BufferWritten(left - chunk, total + chunk, written + chunk)

\* uuid.uuid4().hex as one character of a name.
Hex(token) == ToString(token)

\* What storing an upload runs into: nothing, an OSError of
\* target_path.open (the storage key is longer than the file system allows
\* for a name, the disk is full), or an error of upload.read.  _write_file
\* has a try/finally and no except clause.
StoreFaults == {"none", "open", "read"}

\* _write_file: the storage key and the size written (None when the file is
\* dropped, or when the call ends with the exception of the fault).
WriteFile(upload, token) ==
    LET filename == IF upload.filename # <<>> THEN upload.filename ELSE DefaultName
        unique_name == <<Hex(token), "_">> \o SanitizeFilename(filename)
    IN  [size |-> IF upload.fault = "none" THEN ReadLoop(upload.size, 0) ELSE None,
         rel_name |-> unique_name,
         fault |-> upload.fault]

\* Faulty variant: the file of a dropped upload is left where it was written.
DiskAfterWriteKeepPartial(files, id, w) ==
    IF w.fault = "open" THEN files ELSE files \cup {<<id, w.rel_name>>}

\* The file _write_file leaves on storage: the target is opened for writing
\* (created or truncated) and unlinked again when the ceiling is exceeded;
\* when the first read raises, the file that was opened stays.
DiskAfterWrite(files, id, w) ==
    IF w.fault = "open" THEN files
    ELSE IF w.fault = "read" THEN files \cup {<<id, w.rel_name>>}
    ELSE IF IsNone(w.size) THEN files \ {<<id, w.rel_name>>}
    ELSE files \cup {<<id, w.rel_name>>}

\* The EvidenceItem built by save for a stored upload.
NewItem(upload, id, w) ==
    [filename |-> IF upload.filename # <<>> THEN upload.filename ELSE w.rel_name,
     url |-> [incident_id |-> id, key |-> w.rel_name],
     size_bytes |-> The(w.size),
     analysis |-> None]

\* save: the uploads in order, tokens[i] the uuid4 drawn for upload i.  An
\* exception of _write_file leaves save at once (raised), with the files
\* written so far on storage.
RECURSIVE Save(_, _, _, _, _)
Save(id, uploads, tokens, i, acc) ==
    IF i > Len(uploads) THEN acc
    ELSE LET w == WriteFile(uploads[i], tokens[i])
             files == DiskAfterWrite(acc.disk, id, w)
         IN  IF w.fault # "none"
             THEN [records |-> <<>>, disk |-> files, raised |-> TRUE]
             ELSE IF IsNone(w.size)
             THEN Save(id, uploads, tokens, i + 1, [acc EXCEPT !.disk = files])
             ELSE Save(id, uploads, tokens, i + 1,
                       [records |-> Append(acc.records,
                                           [item |-> NewItem(uploads[i], id, w),
                                            rel_name |-> w.rel_name]),
                        disk |-> files,
                        raised |-> FALSE])

\* Paths.  A path is absolute or relative to the working directory of the
\* process, and has its components as parts; a component is a sequence of
\* characters, as the storage keys are.  Cwd is the working directory.
Cwd == << <<"srv">> >>
DotDot == <<".", ".">>
Dot == <<".">>

\* EvidenceStorage.root: Path("./storage/evidence"), the default that the
\* module-level EvidenceStorage() of main.py is built with.
StorageRoot == [absolute |-> FALSE, parts |-> << <<"storage">>, <<"evidence">> >>]

\* Path.resolve on components: "." is dropped and ".." drops the component
\* before it (storage holds no symbolic links).
RECURSIVE Canonical(_, _)
Canonical(parts, acc) ==
    IF parts = <<>> THEN acc
    ELSE IF Head(parts) = Dot THEN Canonical(Tail(parts), acc)
    ELSE IF Head(parts) = DotDot
         THEN Canonical(Tail(parts),
                        IF acc = <<>> THEN acc ELSE SubSeq(acc, 1, Len(acc) - 1))
    ELSE Canonical(Tail(parts), Append(acc, Head(parts)))

\* EvidenceStorage.resolve: (root / incident_id / filename).resolve(), an
\* absolute path.
Resolve(incident, filename) ==
    [absolute |-> TRUE,
     parts |-> Canonical((IF StorageRoot.absolute THEN <<>> ELSE Cwd)
                             \o StorageRoot.parts \o <<incident, filename>>, <<>>)]

\* Faulty variant: every incident is stored in the same directory.
IncidentDirShared(id) == <<"0">>

\* The directory name of an incident: its uuid4 as text.
IncidentDir(id) == <<Hex(id)>>

\* Faulty variant: every path counts as lying under the root.
IsRelativeToAnything(path, root) == TRUE

\* path.relative_to(root) does not raise ValueError: both paths are absolute
\* or both relative, and the parts of root are the first parts of path.
IsRelativeTo(path, root) ==
    /\ path.absolute = root.absolute
    /\ Len(root.parts) <= Len(path.parts)
    /\ SubSeq(path.parts, 1, Len(root.parts)) = root.parts

\* A file of the process that is not evidence: it lies beside the storage root.
OtherFiles == {Cwd \o << <<"storage">>, <<"notes">> >>}

\* path.exists() and path.is_file(), with `files` the evidence on storage.
IsFile(path, files) ==
    /\ path.absolute
    /\ \/ path.parts \in OtherFiles
       \/ \E f \in files : path = Resolve(IncidentDir(f[1]), f[2])

(***************************************************************************)
(* workflow/incident_graph.py: the graph                                   *)
(***************************************************************************)
Nodes == {"intake", "triage", "root_cause", "corrective", "notify"}
END == "__end__"

\* graph.set_entry_point
EntryPoint == "intake"

\* Faulty variant: the edge out of intake skips triage.
EdgeTargetSkip(n) ==
    CASE n = "intake" -> "root_cause"
      [] n = "triage" -> "root_cause"
      [] n = "root_cause" -> "corrective"
      [] n = "corrective" -> "notify"
      [] n = "notify" -> END

\* Faulty variant: the edge out of notify leads back to the entry point.
EdgeTargetCycle(n) ==
    CASE n = "intake" -> "triage"
      [] n = "triage" -> "root_cause"
      [] n = "root_cause" -> "corrective"
      [] n = "corrective" -> "notify"
      [] n = "notify" -> "intake"

\* Faulty variant: the notify node hands back to the corrective node.
EdgeTargetBack(n) ==
    CASE n = "intake" -> "triage"
      [] n = "triage" -> "root_cause"
      [] n = "root_cause" -> "corrective"
      [] n = "corrective" -> "notify"
      [] n = "notify" -> "corrective"

\* graph.add_edge: the single successor of each node.
EdgeTarget(n) ==
    CASE n = "intake" -> "triage"
      [] n = "triage" -> "root_cause"
      [] n = "root_cause" -> "corrective"
      [] n = "corrective" -> "notify"
      [] n = "notify" -> END

\* Faulty variant: the triage node returns its output under the key of intake.
OutKeyClobber(n) ==
    CASE n = "intake" -> "intake"
      [] n = "triage" -> "intake"
      [] n = "root_cause" -> "root_cause"
      [] n = "corrective" -> "corrective_actions"
      [] n = "notify" -> "notifications"

\* The key of IncidentState a node's returned update writes.
OutKey(n) ==
    CASE n = "intake" -> "intake"
      [] n = "triage" -> "triage"
      [] n = "root_cause" -> "root_cause"
      [] n = "corrective" -> "corrective_actions"
      [] n = "notify" -> "notifications"

\* The keys of IncidentState a node reads before it calls its agent.
NodeReads(n) ==
    CASE n = "intake" -> {"report"}
      [] n = "triage" -> {"report", "intake"}
      [] n = "root_cause" -> {"report", "intake", "triage"}
      [] n = "corrective" -> {"report", "intake", "triage", "root_cause"}
      [] n = "notify" -> {"report", "intake", "triage", "corrective_actions"}

\* Faulty variant: the node also returns a report, with its attachments cleared.
NodeUpdateWithReport(n, v) ==
    [k \in {OutKey(n), "report"} |->
        IF k = "report"
        THEN [title |-> "Slip on wet floor",
              description |-> <<"Employee slipped near loading dock">>,
              attachments |-> <<>>]
        ELSE v]

\* The update a node returns.
NodeUpdate(n, v) == [k \in {OutKey(n)} |-> v]

\* Faulty variant: the update of a node replaces the state.
MergeReplace(st, upd) == upd

\* The graph merges a node's update into the state: the keys of the update
\* are written, every other key is kept (IncidentState declares no reducer).
Merge(st, upd) ==
    [k \in DOMAIN st \cup DOMAIN upd |-> IF k \in DOMAIN upd THEN upd[k] ELSE st[k]]

\* The keys IncidentWorkflowGraph.run reads from the final state.
ReportKeys == {"intake", "triage", "root_cause", "corrective_actions", "notifications"}

\* Faulty variant: the report takes its triage from the intake key.
BuildReportSwapped(rep, final_state, now) ==
    [incident |-> rep,
     intake |-> final_state["intake"],
     triage |-> final_state["intake"],
     root_cause |-> final_state["root_cause"],
     corrective_actions |-> final_state["corrective_actions"],
     notifications |-> final_state["notifications"],
     evidence |-> <<>>,
     generated_at |-> now]

\* Faulty variant: the time of assembly is also written into the incident.
BuildReportStamped(rep, final_state, now) ==
    [incident |-> [rep EXCEPT !.title = now],
     intake |-> final_state["intake"],
     triage |-> final_state["triage"],
     root_cause |-> final_state["root_cause"],
     corrective_actions |-> final_state["corrective_actions"],
     notifications |-> final_state["notifications"],
     evidence |-> <<>>,
     generated_at |-> now]

\* IncidentWorkflowGraph.run, after ainvoke: the terminal report; evidence
\* and generated_at take their defaults, the empty list and utcnow().
BuildReport(rep, final_state, now) ==
    [incident |-> rep,
     intake |-> final_state["intake"],
     triage |-> final_state["triage"],
     root_cause |-> final_state["root_cause"],
     corrective_actions |-> final_state["corrective_actions"],
     notifications |-> final_state["notifications"],
     evidence |-> <<>>,
     generated_at |-> now]

(***************************************************************************)
(* agents/incident.py and vector/memory.py: the policies of the corrective *)
(* agent                                                                   *)
(***************************************************************************)
\* n_results of the query CorrectiveActionAgent.plan makes.
NResults == 4

\* Faulty variant: the root-cause agent queries the vector memory as well.
QueriesFromRootCause(n) == n \in {"root_cause", "corrective"}

\* The agents whose method queries the vector memory: only
\* CorrectiveActionAgent is built with it and calls it.
Queries(n) == n = "corrective"

\* The text of the query, as its lines: the description of the report, the
\* narrative of the intake summary and the primary causes, joined by "\n".
QueryText(args) ==
    args["report"].description \o <<args["intake"], args["root_cause"]>>

\* What the collection holds for a query: a document and its metadata, with
\* a tag or without one.
PolicyItems ==
    { [document |-> "Wear hard hats in production areas.", metadata |-> [tag |-> Some("PPE")]],
      [document |-> "Apply lockout/tagout before servicing.", metadata |-> [tag |-> None]] }

\* The answers of the collection to a query for n_results matches.
MatchLists == SeqsUpTo(PolicyItems, NResults)

\* VectorMemory.query: no match for an empty text, else what the collection
\* answers.
Query(text, found) == IF text = <<>> THEN <<>> ELSE found

\* A text kept as its lines, each line as its pieces, is the empty string
\* when it has no line, or one line of empty pieces.
IsEmptyText(lines) ==
    \/ lines = <<>>
    \/ Len(lines) = 1 /\ \A i \in 1..Len(lines[1]) : lines[1][i] = ""

\* policy_context: one line "- <tag>: <document>" per match, the tag
\* "policy" when the metadata has none.
PolicyContext(policy_matches) ==
    [i \in 1..Len(policy_matches) |->
        <<"- ",
          IF IsSome(policy_matches[i].metadata.tag)
          THEN The(policy_matches[i].metadata.tag) ELSE "policy",
          ": ",
          policy_matches[i].document>>]

NoPolicies == << <<"No policies found. Base recommendations on best practice.">> >>

\* Faulty variant: the policy text goes into the prompt as it is.
PromptPoliciesRaw(policy_matches) == PolicyContext(policy_matches)

\* What follows "Relevant policies:" in the prompt: policy_context or the
\* placeholder.
PromptPolicies(policy_matches) ==
    IF IsEmptyText(PolicyContext(policy_matches)) THEN NoPolicies
    ELSE PolicyContext(policy_matches)

(***************************************************************************)
(* main.py: the request and its inputs                                     *)
(***************************************************************************)
\* The `incident` form field: absent (None; FastAPI hands an empty form value
\* over as the default of the field, which is None), a string that is no valid
\* IncidentReport JSON, or a valid payload.
ValidPayloads ==
    { [title |-> "Slip on wet floor",
       description |-> <<"Employee slipped near loading dock">>,
       attachments |-> <<>>] }

IncidentInputs ==
    {[kind |-> "absent"], [kind |-> "invalid"]}
        \cup {[kind |-> "valid", report |-> p] : p \in ValidPayloads}

\* The `message` form field: absent (None), or its lines; a line "" is a
\* line of white space.
MessageInputs == {None, Some(<<"">>), Some(<<"Forklift near miss", "at dock 2">>)}

\* str.strip() of a text kept as its lines: blank lines at both ends go.
StripLines(lines) == Strip(lines, {""})

\* Faulty variant: a payload that is no valid IncidentReport is passed over
\* and the report is built from the message.
PrepareIncidentReportLenient(incident, message) ==
    IF incident.kind = "valid" THEN Some(incident.report)
    ELSE LET stripped == IF IsNone(message) THEN <<>> ELSE StripLines(The(message))
             message_text == IF stripped = <<>>
                             THEN <<"Evidence submitted without accompanying narrative.">>
                             ELSE stripped
         IN  Some([title |-> message_text[1],
                   description |-> message_text,
                   attachments |-> <<>>])

\* _prepare_incident_report: the report, or None for HTTP 400.
PrepareIncidentReport(incident, message) ==
    IF incident.kind = "valid" THEN Some(incident.report)
    ELSE IF incident.kind = "invalid" THEN None
    ELSE LET stripped == IF IsNone(message) THEN <<>> ELSE StripLines(The(message))
             message_text == IF stripped = <<>>
                             THEN <<"Evidence submitted without accompanying narrative.">>
                             ELSE stripped
         IN  Some([title |-> message_text[1],
                   description |-> message_text,
                   attachments |-> <<>>])

(***************************************************************************)
(* services/evidence_analyzer.py                                           *)
(***************************************************************************)
\* What analyse finds at its path: no file; a path whose stat fails with an
\* error other than "not found" (a directory on it cannot be searched); a
\* file that is no image; an image file that cannot be read; an image.  And
\* what the vision model does with an image: it answers with a text, with an
\* empty text, or the call fails.
FileStates == {"missing", "stat_error", "not_image", "unreadable", "image"}
VisionReplies == {"text", "empty", "error"}

AnalysisCases ==
    {[file |-> f, vision |-> "text"] : f \in FileStates \ {"image"}}
        \cup {[file |-> "image", vision |-> v] : v \in VisionReplies}

\* What a call ends with: the string it returns or the exception it raises.
Returns(text) == [exc |-> FALSE, value |-> text]
Raises(exception) == [exc |-> TRUE, value |-> exception]

\* _analyse_image: the text of the vision model, or the fallback for an
\* empty text or a failed call, after the line that describes the image.
AnalyseImage(vision) ==
    CASE vision = "text" -> "Image PNG 4x4px. Analysis: wet floor"
      [] vision = "empty" -> "Image PNG 4x4px. Analysis: Vision model returned no commentary."
      [] vision = "error" -> "Image PNG 4x4px. Analysis: Unable to complete AI analysis."

\* analyse: path.exists() is called before the try block and re-raises every
\* OSError of stat but "not found"; Image.open and _analyse_image run inside it.
Analyse(case) ==
    CASE case.file = "missing" -> Returns("Evidence file missing.")
      [] case.file = "stat_error" -> Raises("PermissionError")
      [] case.file = "not_image" -> Returns("Unsupported evidence type (non-image).")
      [] case.file = "unreadable" -> Returns("Error processing evidence.")
      [] case.file = "image" -> Returns(AnalyseImage(case.vision))

\* What one analysis task ends with: what analyse returned or raised; gather
\* is called with return_exceptions=True and hands an exception over as the
\* result of the task.
TaskOutcomes == {Analyse(case) : case \in AnalysisCases}

\* The loop that creates one analysis task per saved record, in order.
CreateTasks(id, recs) ==
    [i \in 1..Len(recs) |->
        [path |-> Resolve(IncidentDir(id), recs[i].rel_name), outcome |-> None]]

\* Faulty variant: a task that ends with an exception cancels the tasks that
\* are still running.
FinishTaskCancelSiblings(ts, i, outcome) ==
    [j \in 1..Len(ts) |->
        IF j = i THEN [ts[j] EXCEPT !.outcome = Some(outcome)]
        ELSE IF outcome.exc /\ IsNone(ts[j].outcome)
             THEN [ts[j] EXCEPT !.outcome = Some([exc |-> TRUE, value |-> "CancelledError"])]
             ELSE ts[j]]

\* Task i ends: gather was called with return_exceptions=True, so the
\* outcome, whatever it is, is kept for task i and the other tasks run on.
FinishTask(ts, i, outcome) == [ts EXCEPT ![i].outcome = Some(outcome)]

\* Faulty variant: the results are collected as the tasks end.
GatherAsCompleted(ts, order) == [k \in 1..Len(order) |-> The(ts[order[k]].outcome)]

\* asyncio.gather(*analysis_tasks, return_exceptions=True): the outcome of
\* task i at position i, whatever the order in which the tasks ended.
Gather(ts, order) == [i \in 1..Len(ts) |-> The(ts[i].outcome)]

\* item.analysis = analysis if isinstance(analysis, str) else "Analysis failed."
AnalysisText(outcome) == IF outcome.exc THEN "Analysis failed." ELSE outcome.value

\* The zip loop that writes the analyses into the evidence items.
WriteBack(recs, results) ==
    [i \in 1..Len(recs) |->
        IF i <= Len(results)
        THEN [recs[i] EXCEPT !.item.analysis = Some(AnalysisText(results[i]))]
        ELSE recs[i]]

\* Faulty variant: the lines are taken last item first.
SummaryLinesReversed(recs) ==
    [i \in 1..Len(recs) |-> The(recs[Len(recs) + 1 - i].item.analysis)]

\* summary_lines: the analyses of the items that have one (and a non-empty one).
RECURSIVE SummaryLines(_)
SummaryLines(recs) ==
    IF recs = <<>> THEN <<>>
    ELSE LET a == Head(recs).item.analysis
         IN  (IF IsSome(a) /\ The(a) # "" THEN <<The(a)>> ELSE <<>>)
                 \o SummaryLines(Tail(recs))

\* Faulty variant: the insights are appended to the description a second time.
AttachEvidenceTwice(rep, recs) ==
    IF recs = <<>> THEN rep
    ELSE LET lines == SummaryLines(recs)
         IN  [rep EXCEPT
                !.attachments = [i \in 1..Len(recs) |-> recs[i].item.url],
                !.description =
                    StripLines(@ \o <<"", "Evidence Insights:">> \o lines
                                 \o <<"", "Evidence Insights:">> \o lines)]

\* Faulty variant: the evidence block runs also when no item was stored.
AttachEvidenceAlways(rep, recs) ==
    [rep EXCEPT
        !.attachments = [i \in 1..Len(recs) |-> recs[i].item.url],
        !.description = StripLines(@ \o <<"", "Evidence Insights:">>
                                     \o SummaryLines(recs))]

\* The block that attaches the evidence to the report before the workflow runs.
AttachEvidence(rep, recs) ==
    IF recs = <<>> THEN rep
    ELSE LET urls == [i \in 1..Len(recs) |-> recs[i].item.url]
             lines == SummaryLines(recs)
         IN  [rep EXCEPT
                !.attachments = urls,
                !.description =
                    IF lines = <<>> THEN @
                    ELSE StripLines(@ \o <<"", "Evidence Insights:">> \o lines)]

(***************************************************************************)
(* State                                                                   *)
(***************************************************************************)
VARIABLES
    pc,           \* where each request handler stands
    uploads,      \* the evidence files of the request
    report,       \* the IncidentReport (None before it is prepared)
    incident_id,  \* the uuid4 of the request
    records,      \* saved_records / evidence_items: item and storage key
    tasks,        \* the analysis tasks: the file, and the outcome once ended
    analyses,     \* what asyncio.gather returned
    state,        \* the IncidentState of the graph run
    node,         \* the node the graph run is at
    plan,         \* notification_plan of _notify_node
    result,       \* the IncidentWorkflowReport (None until it is built)
    response,     \* the HTTP status answered (0: none yet)
    disk,         \* the files under the storage root: <<incident_id, key>>
    \* history of each run, for stating the properties
    done,         \* the order in which the analysis tasks ended
    started,      \* the node functions entered, in order
    called,       \* the agent calls made, in order, with their arguments
    returned,     \* the value each agent, and execute, returned
    raised,       \* the node whose agent raised (None if none did)
    executed,     \* the plans NotificationService.execute was called with
    request,      \* the form fields the handler was called with
    queried,      \* the queries CorrectiveActionAgent.plan made to the vector memory
    context,      \* the policy text in the prompt of the corrective agent
    \* the evidence endpoint
    served,       \* the last answer of get_evidence (None before the first)
    \* _sanitize_filename on its own
    given_name,   \* the name it is called with
    safe_name     \* the name it returned (None before the call)

vars == <<pc, uploads, report, incident_id, records, tasks, analyses, state, node,
          plan, result, response, disk, done, started, called, returned, raised,
          executed, request, queried, context, served, given_name, safe_name>>

requestVars == <<pc, uploads, report, incident_id, records, tasks, analyses, state,
                 node, plan, result, response, done, started, called, returned,
                 raised, executed, request, queried, context>>
sideVars == <<served, given_name, safe_name>>
policyVars == <<queried, context>>

evidenceVars == <<uploads, incident_id, records, tasks, analyses, disk, done>>
graphVars == <<state, node, plan>>
historyVars == <<started, called, returned, raised, executed>>

InitRequests ==
    /\ pc = [r \in Runs |-> "start"]
    /\ uploads = [r \in Runs |-> <<>>]
    /\ report = [r \in Runs |-> None]
    /\ incident_id = [r \in Runs |-> None]
    /\ records = [r \in Runs |-> <<>>]
    /\ tasks = [r \in Runs |-> <<>>]
    /\ analyses = [r \in Runs |-> <<>>]
    /\ state = [r \in Runs |-> EmptyMap]
    /\ node = [r \in Runs |-> EntryPoint]
    /\ plan = [r \in Runs |-> None]
    /\ result = [r \in Runs |-> None]
    /\ response = [r \in Runs |-> 0]
    /\ disk = {}
    /\ done = [r \in Runs |-> <<>>]
    /\ started = [r \in Runs |-> <<>>]
    /\ called = [r \in Runs |-> <<>>]
    /\ returned = [r \in Runs |-> EmptyMap]
    /\ raised = [r \in Runs |-> None]
    /\ executed = [r \in Runs |-> <<>>]
    /\ request = [r \in Runs |-> None]
    /\ queried = [r \in Runs |-> <<>>]
    /\ context = [r \in Runs |-> None]

Init ==
    /\ InitRequests
    /\ served = None
    /\ given_name = <<>>
    /\ safe_name = None

(***************************************************************************)
(* main.py: incident_workflow up to the call of the workflow               *)
(***************************************************************************)
\* The request arrives: the emptiness check and _prepare_incident_report.
Receive(r, incident, message, files) ==
    /\ pc[r] = "start"
    /\ LET rep == PrepareIncidentReport(incident, message)
           rejected == \/ (incident.kind = "absent" /\ IsNone(message) /\ files = <<>>)
                       \/ IsNone(rep)
       IN  IF rejected
           THEN /\ pc' = [pc EXCEPT ![r] = "failed"]
                /\ response' = [response EXCEPT ![r] = 400]
                /\ UNCHANGED <<report, uploads>>
           ELSE /\ pc' = [pc EXCEPT ![r] = "save"]
                /\ report' = [report EXCEPT ![r] = rep]
                /\ uploads' = [uploads EXCEPT ![r] = files]
                /\ UNCHANGED response
    /\ request' = [request EXCEPT ![r] =
            Some([incident |-> incident, message |-> message, files |-> files])]
    /\ UNCHANGED <<incident_id, records, tasks, analyses, disk, done>>
    /\ UNCHANGED <<graphVars, historyVars, result>>
    /\ UNCHANGED <<sideVars, policyVars>>

\* incident_id = uuid4().hex and evidence_storage.save; uuid4 yields a value
\* it has not yielded before, so the incident ids of two requests differ and
\* the tokens of one call differ.  An exception of save is not caught in
\* incident_workflow: the framework answers 500.
SaveEvidence(r, id, tokens) ==
    /\ pc[r] = "save"
    /\ \A q \in Runs : incident_id[q] # Some(id)
    /\ \A i, j \in DOMAIN tokens : tokens[i] = tokens[j] => i = j
    /\ LET saved == Save(id, uploads[r], tokens, 1,
                         [records |-> <<>>, disk |-> disk, raised |-> FALSE])
       IN  /\ incident_id' = [incident_id EXCEPT ![r] = Some(id)]
           /\ records' = [records EXCEPT ![r] = saved.records]
           /\ disk' = saved.disk
           /\ IF saved.raised
              THEN /\ pc' = [pc EXCEPT ![r] = "failed"]
                   /\ response' = [response EXCEPT ![r] = 500]
              ELSE /\ pc' = [pc EXCEPT ![r] =
                            IF saved.records # <<>> THEN "spawn" ELSE "attach"]
                   /\ UNCHANGED response
    /\ UNCHANGED <<uploads, tasks, analyses, done, report, result>>
    /\ UNCHANGED <<graphVars, historyVars>>
    /\ UNCHANGED <<sideVars, policyVars, request>>

\* The loop that resolves each stored file and creates its analysis task.
SpawnTasks(r) ==
    /\ pc[r] = "spawn"
    /\ tasks' = [tasks EXCEPT ![r] = CreateTasks(The(incident_id[r]), records[r])]
    /\ pc' = [pc EXCEPT ![r] = "gather"]
    /\ UNCHANGED <<uploads, incident_id, records, analyses, disk, done>>
    /\ UNCHANGED <<graphVars, historyVars, report, result, response>>
    /\ UNCHANGED <<sideVars, policyVars, request>>

\* One analysis task ends: analyse returned a string or raised.
TaskFinish(r, i, case) ==
    /\ pc[r] = "gather"
    /\ i \in 1..Len(tasks[r])
    /\ IsNone(tasks[r][i].outcome)
    /\ tasks' = [tasks EXCEPT ![r] = FinishTask(@, i, Analyse(case))]
    /\ done' = [done EXCEPT ![r] = Append(@, i)]
    /\ UNCHANGED <<uploads, incident_id, records, analyses, disk>>
    /\ UNCHANGED <<graphVars, historyVars, pc, report, result, response>>
    /\ UNCHANGED <<sideVars, policyVars, request>>

\* asyncio.gather returns once every task has ended; the analyses are
\* written into the items.
Join(r) ==
    /\ pc[r] = "gather"
    /\ \A i \in 1..Len(tasks[r]) : IsSome(tasks[r][i].outcome)
    /\ LET results == Gather(tasks[r], done[r])
       IN  /\ analyses' = [analyses EXCEPT ![r] = results]
           /\ records' = [records EXCEPT ![r] = WriteBack(@, results)]
    /\ pc' = [pc EXCEPT ![r] = "attach"]
    /\ UNCHANGED <<uploads, incident_id, tasks, disk, done>>
    /\ UNCHANGED <<graphVars, historyVars, report, result, response>>
    /\ UNCHANGED <<sideVars, policyVars, request>>

\* The attachments and the evidence insights go into the report.
Attach(r) ==
    /\ pc[r] = "attach"
    /\ report' = [report EXCEPT ![r] = Some(AttachEvidence(The(@), records[r]))]
    /\ pc' = [pc EXCEPT ![r] = "run"]
    /\ UNCHANGED <<evidenceVars, graphVars, historyVars, result, response>>
    /\ UNCHANGED <<sideVars, policyVars, request>>

(***************************************************************************)
(* The workflow run: services/incident_workflow.py, incident_graph.py      *)
(***************************************************************************)
\* Faulty variant: the exception is caught and a report of what the state holds so
\* far is answered.
AbortRunPartial(r) ==
    /\ pc' = [pc EXCEPT ![r] = "done"]
    /\ response' = [response EXCEPT ![r] = 200]
    /\ result' = [result EXCEPT ![r] =
            Some([incident |-> The(report[r]), evidence |-> <<>>])]

\* Faulty variant: the exception is caught and the node is run again.
AbortRunRetry(r) ==
    /\ pc' = [pc EXCEPT ![r] = "node"]
    /\ UNCHANGED <<response, result>>

\* Faulty variant: the exception ends every request the process is handling.
AbortRunAll(r) ==
    /\ pc' = [q \in Runs |-> "failed"]
    /\ response' = [q \in Runs |-> 500]
    /\ UNCHANGED result

\* An exception leaves ainvoke, IncidentWorkflowGraph.run and
\* IncidentWorkflowService.run; incident_workflow turns it into HTTP 500.
AbortRun(r) ==
    /\ pc' = [pc EXCEPT ![r] = "failed"]
    /\ response' = [response EXCEPT ![r] = 500]
    /\ UNCHANGED result

\* The graph moves on along the edge that leaves node n.
Advance(r, n) ==
    /\ node' = [node EXCEPT ![r] = EdgeTarget(n)]
    /\ pc' = [pc EXCEPT ![r] = IF EdgeTarget(n) = END THEN "end" ELSE "node"]

\* IncidentWorkflowService.run calls IncidentWorkflowGraph.run, which starts
\* the graph on the initial state {"report": report}.
RunStart(r) ==
    /\ pc[r] = "run"
    /\ state' = [state EXCEPT ![r] = [k \in {"report"} |-> The(report[r])]]
    /\ node' = [node EXCEPT ![r] = EntryPoint]
    /\ pc' = [pc EXCEPT ![r] = "node"]
    /\ UNCHANGED <<evidenceVars, historyVars, plan, report, result, response>>
    /\ UNCHANGED <<sideVars, policyVars, request>>

\* A node function starts: it reads its keys of the state (KeyError if one is
\* missing) and calls the method of its agent, which builds the prompt and
\* awaits the model on it; the method of the corrective agent queries the
\* vector memory before it builds its prompt.
NodeEnter(r) ==
    /\ pc[r] = "node"
    /\ started' = [started EXCEPT ![r] = Append(@, node[r])]
    /\ IF NodeReads(node[r]) \subseteq DOMAIN state[r]
       THEN /\ called' = [called EXCEPT ![r] =
                    Append(@, [stage |-> node[r],
                               args |-> [k \in NodeReads(node[r]) |-> state[r][k]]])]
            /\ pc' = [pc EXCEPT ![r] = IF Queries(node[r]) THEN "query" ELSE "agent"]
            /\ UNCHANGED <<result, response>>
       ELSE /\ AbortRun(r)
            /\ UNCHANGED called
    /\ UNCHANGED <<evidenceVars, graphVars, report, returned, raised, executed>>
    /\ UNCHANGED <<sideVars, policyVars, request>>

\* CorrectiveActionAgent.plan queries the vector memory, which answers with
\* `matches`, formats the policy text and awaits the model on its prompt.
PolicyQuery(r, matches) ==
    /\ pc[r] = "query"
    /\ queried' = [queried EXCEPT ![r] =
            Append(@, [stage |-> node[r],
                       text |-> QueryText(called[r][Len(called[r])].args),
                       n_results |-> NResults])]
    /\ context' = [context EXCEPT ![r] =
            Some([matches |-> Query(QueryText(called[r][Len(called[r])].args), matches),
                  policies |-> PromptPolicies(
                      Query(QueryText(called[r][Len(called[r])].args), matches))])]
    /\ pc' = [pc EXCEPT ![r] = "agent"]
    /\ UNCHANGED <<evidenceVars, graphVars, historyVars, report, result, response>>
    /\ UNCHANGED <<sideVars, request>>

\* The agent of one of the first four nodes returns v; the node returns its
\* update, the graph merges it and follows the edge.
AgentReturn(r, v) ==
    /\ pc[r] = "agent"
    /\ node[r] # "notify"
    /\ returned' = [returned EXCEPT ![r] = Merge(@, [k \in {node[r]} |-> v])]
    /\ state' = [state EXCEPT ![r] = Merge(@, NodeUpdate(node[r], v))]
    /\ Advance(r, node[r])
    /\ UNCHANGED <<evidenceVars, plan, report, result, response>>
    /\ UNCHANGED <<started, called, raised, executed>>
    /\ UNCHANGED <<sideVars, policyVars, request>>

\* The notification agent returns the plan p.
PlanReturn(r, p) ==
    /\ pc[r] = "agent"
    /\ node[r] = "notify"
    /\ returned' = [returned EXCEPT ![r] = Merge(@, [k \in {node[r]} |-> p])]
    /\ plan' = [plan EXCEPT ![r] = Some(p)]
    /\ pc' = [pc EXCEPT ![r] = "execute"]
    /\ UNCHANGED <<evidenceVars, state, node, report, result, response>>
    /\ UNCHANGED <<started, called, raised, executed>>
    /\ UNCHANGED <<sideVars, policyVars, request>>

\* The method of the agent of the current node raises: the call of the
\* model does, or the query of the vector memory.
AgentRaise(r) ==
    /\ pc[r] \in {"query", "agent"}
    /\ raised' = [raised EXCEPT ![r] = Some(node[r])]
    /\ AbortRun(r)
    /\ UNCHANGED <<evidenceVars, graphVars, report>>
    /\ UNCHANGED <<started, called, returned, executed>>
    /\ UNCHANGED <<sideVars, policyVars, request>>

\* Faulty variant: _notify_node stores the plan it got from the agent.
NotifiedRawPlan(p, tids, mids) == p

\* The value _notify_node stores under "notifications".
Notified(p, tids, mids) == Execute(p, tids, mids)

\* _notify_node awaits NotificationService.execute on its plan and returns
\* the result as its update.  The uuid4 values execute draws differ, the
\* leading digits it keeps of them need not: tids and mids are any values.
NotifyExecute(r, tids, mids) ==
    /\ pc[r] = "execute"
    /\ executed' = [executed EXCEPT ![r] = Append(@, The(plan[r]))]
    /\ returned' = [returned EXCEPT ![r] =
            Merge(@, [k \in {"execute"} |-> Execute(The(plan[r]), tids, mids)])]
    /\ state' = [state EXCEPT ![r] =
            Merge(@, NodeUpdate(node[r], Notified(The(plan[r]), tids, mids)))]
    /\ Advance(r, node[r])
    /\ UNCHANGED <<evidenceVars, plan, report, result, response>>
    /\ UNCHANGED <<started, called, raised>>
    /\ UNCHANGED <<sideVars, policyVars, request>>

\* IncidentWorkflowService.run, after the graph returned: the evidence list
\* of the report is copied when the incident has attachments.
EnsureEvidence(rep, res) ==
    IF rep.attachments # <<>>
    THEN [res EXCEPT !.evidence = [i \in 1..Len(@) |-> @[i]]]
    ELSE res

\* ainvoke returns the final state; IncidentWorkflowGraph.run builds the
\* report from it (KeyError if a key is missing), at the time `now`.
GraphEnd(r, now) ==
    /\ pc[r] = "end"
    /\ IF ReportKeys \subseteq DOMAIN state[r]
       THEN /\ result' = [result EXCEPT ![r] =
                    Some(EnsureEvidence(The(report[r]),
                                        BuildReport(The(report[r]), state[r], now)))]
            /\ pc' = [pc EXCEPT ![r] = "respond"]
            /\ UNCHANGED response
       ELSE AbortRun(r)
    /\ UNCHANGED <<evidenceVars, graphVars, historyVars, report>>
    /\ UNCHANGED <<sideVars, policyVars, request>>

\* Faulty variant: the items are listed last upload first.
EvidenceModelsReversed(recs) ==
    [i \in 1..Len(recs) |-> recs[Len(recs) + 1 - i].item]

\* evidence_models: the items of the stored records, in their order.
EvidenceModels(recs) == [i \in 1..Len(recs) |-> recs[i].item]

\* Faulty variant: the assignment also replaces the intake summary.
WithEvidenceAndIntake(res, recs) ==
    [res EXCEPT !.evidence = EvidenceModels(recs), !.intake = "edited"]

\* result.evidence = evidence_models
WithEvidence(res, recs) == [res EXCEPT !.evidence = EvidenceModels(recs)]

\* incident_workflow sets the evidence of the report, renders it and answers.
Respond(r) ==
    /\ pc[r] = "respond"
    /\ result' = [result EXCEPT ![r] = Some(WithEvidence(The(@), records[r]))]
    /\ response' = [response EXCEPT ![r] = 200]
    /\ pc' = [pc EXCEPT ![r] = "done"]
    /\ UNCHANGED <<evidenceVars, graphVars, historyVars, report>>
    /\ UNCHANGED <<sideVars, policyVars, request>>

(***************************************************************************)
(* The assembly of the report, applied once more                           *)
(***************************************************************************)
\* The report as incident_workflow hands it to rendering: built by
\* IncidentWorkflowGraph.run from the final state, with the evidence list
\* IncidentWorkflowService.run and incident_workflow assign to it.
Assemble(rep, final_state, recs, now) ==
    WithEvidence(EnsureEvidence(rep, BuildReport(rep, final_state, now)), recs)

\* The report of a finished run is assembled again, at the time `now`, from
\* the same final state and the same evidence items.
Reassemble(r, now) ==
    /\ pc[r] = "done"
    /\ result' = [result EXCEPT ![r] =
            Some(Assemble(The(report[r]), state[r], records[r], now))]
    /\ UNCHANGED <<pc, uploads, report, incident_id, records, tasks, analyses, state,
                   node, plan, response, done, started, called, returned, raised,
                   executed, request, queried, context, disk>>
    /\ UNCHANGED sideVars

(***************************************************************************)
(* main.py: get_evidence                                                   *)
(***************************************************************************)
\* GET /evidence/{incident_id}/{filename}: 404 when the resolved path is not
\* relative to the root of the storage or is no file, else the file.
GetEvidence(incident, filename) ==
    /\ LET path == Resolve(incident, filename)
           found == IsRelativeTo(path, StorageRoot) /\ IsFile(path, disk)
       IN  served' = Some([incident_id |-> incident,
                           filename |-> filename,
                           status |-> IF found THEN 200 ELSE 404,
                           path |-> IF found THEN Some(path) ELSE None])
    /\ UNCHANGED <<requestVars, disk, given_name, safe_name>>

(***************************************************************************)
(* services/evidence.py: _sanitize_filename on its own                     *)
(***************************************************************************)
Sanitize ==
    /\ IsNone(safe_name)
    /\ safe_name' = Some(SanitizeFilename(given_name))
    /\ UNCHANGED <<requestVars, disk, served, given_name>>

(***************************************************************************)
(* Specifications                                                          *)
(***************************************************************************)
\* What the agents return.
StageOutputs == {"out-a", "out-b"}

\* The uploads of a request.
UploadNames == {<<>>, <<"a", ".", "a">>}
Uploads == [filename : UploadNames, size : 0..(MaxBytes + 1), fault : StoreFaults]
Storable == {u \in Uploads : u.fault = "none"}

\* The analysis cases of the specifications that do not follow analyse in
\* full: an image with its text, a file that is no image, a failing stat.
SomeCases ==
    {[file |-> "image", vision |-> "text"],
     [file |-> "not_image", vision |-> "text"],
     [file |-> "stat_error", vision |-> "text"]}

\* Plans of at most one ticket and one email.
SmallPlans == {p \in NotificationPlans : Len(p.tickets) <= 1 /\ Len(p.emails) <= 1}

\* The whole request; `in` gives the sets its inputs are drawn from.
Step(r, in) ==
    \/ /\ pc[r] = "start"
       /\ \E inc \in in.incidents, msg \in in.messages, files \in in.files :
               Receive(r, inc, msg, files)
    \/ /\ pc[r] = "save"
       /\ \E id \in in.ids, tokens \in [1..Len(uploads[r]) -> in.keys] :
               SaveEvidence(r, id, tokens)
    \/ SpawnTasks(r)
    \/ \E i \in 1..MaxFiles, case \in in.cases : TaskFinish(r, i, case)
    \/ Join(r)
    \/ Attach(r)
    \/ RunStart(r)
    \/ NodeEnter(r)
    \/ \E matches \in in.matches : PolicyQuery(r, matches)
    \/ \E v \in in.outputs : AgentReturn(r, v)
    \/ \E p \in in.plans : PlanReturn(r, p)
    \/ AgentRaise(r)
    \/ /\ pc[r] = "execute"
       /\ \E tids \in [1..Len(The(plan[r]).tickets) -> Tokens],
             mids \in [1..Len(The(plan[r]).emails) -> Tokens] :
               NotifyExecute(r, tids, mids)
    \/ \E now \in in.times : GraphEnd(r, now)
    \/ Respond(r)

\* The pipeline in full, on requests with at most one evidence file.
PipelineInputs ==
    [incidents |-> IncidentInputs,
     messages |-> MessageInputs,
     files |-> SeqsUpTo({u \in Storable : u.size >= MaxBytes}, 1),
     ids |-> Tokens,
     keys |-> Tokens,
     cases |-> SomeCases,
     outputs |-> StageOutputs,
     matches |-> {<<>>},
     times |-> {"09:00"},
     plans |-> SmallPlans]

Next == \E r \in {"A"} : Step(r, PipelineInputs)

Spec == Init /\ [][Next]_vars

\* The fan-out in full, on requests with up to MaxFiles evidence files at and
\* above the size ceiling, with one output per agent.
EvidenceInputs ==
    [incidents |-> IncidentInputs,
     messages |-> MessageInputs,
     files |-> SeqsUpTo({u \in Storable : u.size >= MaxBytes /\ u.filename # <<>>},
                        MaxFiles),
     ids |-> {1},
     keys |-> Tokens,
     cases |-> SomeCases,
     outputs |-> {"out-a"},
     matches |-> {<<>>},
     times |-> {"09:00"},
     plans |-> {p \in SmallPlans : Len(p.tickets) = 1 /\ p.emails = <<>>}]

NextEvidence == \E r \in {"A"} : Step(r, EvidenceInputs)

SpecEvidence == Init /\ [][NextEvidence]_vars

\* NotificationService.execute in full, on every plan of up to MaxItems
\* tickets and MaxItems emails, in a request with one evidence file.
NotifyInputs ==
    [incidents |-> {[kind |-> "valid", report |-> p] : p \in ValidPayloads},
     messages |-> {None},
     files |-> {<<u>> : u \in {u \in Storable : u.size = MaxBytes /\ u.filename # <<>>}},
     ids |-> {1},
     keys |-> {1},
     cases |-> {[file |-> "not_image", vision |-> "text"]},
     outputs |-> {"out-a"},
     matches |-> {<<>>},
     times |-> {"09:00"},
     plans |-> NotificationPlans]

NextNotify == \E r \in {"A"} : Step(r, NotifyInputs)

SpecNotify == Init /\ [][NextNotify]_vars

\* EvidenceStorage.save in full, on requests with up to MaxFiles evidence
\* files around the size ceiling, named or not, storable or not, with an
\* analysis that returns and one that raises, and one output per agent.
StorageInputs ==
    [incidents |-> {[kind |-> "valid", report |-> p] : p \in ValidPayloads},
     messages |-> {None},
     files |-> SeqsUpTo({u \in Uploads : u.size >= MaxBytes - 1}, MaxFiles),
     ids |-> {1},
     keys |-> Tokens,
     cases |-> {[file |-> "image", vision |-> "text"],
                [file |-> "stat_error", vision |-> "text"]},
     outputs |-> {"out-a"},
     matches |-> {<<>>},
     times |-> {"09:00"},
     plans |-> {p \in SmallPlans : Len(p.tickets) = 1 /\ p.emails = <<>>}]

NextStorage == \E r \in {"A"} : Step(r, StorageInputs)

SpecStorage == Init /\ [][NextStorage]_vars

\* EvidenceAnalyzer.analyse in full, on requests with one evidence file.
AnalyseInputs ==
    [incidents |-> {[kind |-> "valid", report |-> p] : p \in ValidPayloads},
     messages |-> {None},
     files |-> {<<u>> : u \in {u \in Storable : u.size = MaxBytes}},
     ids |-> {1},
     keys |-> {1},
     cases |-> AnalysisCases,
     outputs |-> {"out-a"},
     matches |-> {<<>>},
     times |-> {"09:00"},
     plans |-> {p \in SmallPlans : Len(p.tickets) = 1 /\ p.emails = <<>>}]

NextAnalyse == \E r \in {"A"} : Step(r, AnalyseInputs)

SpecAnalyse == Init /\ [][NextAnalyse]_vars

\* get_evidence beside a request with one evidence file.  The two path
\* parameters are segments of the URL: the name of an incident directory or
\* "..", and a stored key, "..", or the name of a file beside the root.
ServeInputs ==
    [incidents |-> {[kind |-> "valid", report |-> p] : p \in ValidPayloads},
     messages |-> {None},
     files |-> {<<u>> : u \in {u \in Storable : u.size = MaxBytes /\ u.filename # <<>>}},
     ids |-> {1},
     keys |-> {1},
     cases |-> {[file |-> "not_image", vision |-> "text"]},
     outputs |-> {"out-a"},
     matches |-> {<<>>},
     times |-> {"09:00"},
     plans |-> {p \in SmallPlans : Len(p.tickets) = 1 /\ p.emails = <<>>}]

RequestIncidents == {IncidentDir(id) : id \in Tokens} \cup {DotDot}
RequestFilenames(files) == {f[2] : f \in files} \cup {DotDot, <<"notes">>}

NextServe ==
    \/ \E r \in {"A"} : Step(r, ServeInputs)
    \/ \E incident \in RequestIncidents, filename \in RequestFilenames(disk) :
            GetEvidence(incident, filename)

SpecServe == Init /\ [][NextServe]_vars

\* Two requests at once on the one IncidentWorkflowService of the process:
\* "A" submits a report payload, "B" a message and an evidence file, and the
\* agents answer the two with different outputs.
ConcurrentInputs(r) ==
    [incidents |-> IF r = "A"
                   THEN {[kind |-> "valid", report |-> p] : p \in ValidPayloads}
                   ELSE {[kind |-> "absent"]},
     messages |-> IF r = "A" THEN {None}
                  ELSE {Some(<<"Forklift near miss", "at dock 2">>)},
     files |-> IF r = "A" THEN {<<>>}
               ELSE {<<u>> : u \in {u \in Storable : u.size = MaxBytes /\ u.filename # <<>>}},
     ids |-> Tokens,
     keys |-> {1},
     cases |-> {[file |-> "not_image", vision |-> "text"]},
     outputs |-> {<<"out", r>>},
     matches |-> {<<>>},
     times |-> {"09:00"},
     plans |-> {p \in SmallPlans : Len(p.tickets) = 1 /\ p.emails = <<>>}]

NextConcurrent == \E r \in Runs : Step(r, ConcurrentInputs(r))

SpecConcurrent == Init /\ [][NextConcurrent]_vars

\* CorrectiveActionAgent.plan in full, on every answer of the collection of
\* up to NResults matches, in a request with one evidence file.
PolicyInputs ==
    [incidents |-> {[kind |-> "valid", report |-> p] : p \in ValidPayloads},
     messages |-> {None},
     files |-> {<<u>> : u \in {u \in Storable : u.size = MaxBytes /\ u.filename # <<>>}},
     ids |-> {1},
     keys |-> {1},
     cases |-> {[file |-> "not_image", vision |-> "text"]},
     outputs |-> StageOutputs,
     matches |-> MatchLists,
     times |-> {"09:00"},
     plans |-> {p \in SmallPlans : Len(p.tickets) = 1 /\ p.emails = <<>>}]

NextPolicy == \E r \in {"A"} : Step(r, PolicyInputs)

SpecPolicy == Init /\ [][NextPolicy]_vars

\* The assembly of the report applied twice: the request with one evidence
\* file, and after it the assembly once more, at a later time.
AssembleInputs ==
    [incidents |-> {[kind |-> "valid", report |-> p] : p \in ValidPayloads},
     messages |-> {None},
     files |-> SeqsUpTo({u \in Storable : u.size = MaxBytes /\ u.filename # <<>>}, 1),
     ids |-> {1},
     keys |-> {1},
     cases |-> {[file |-> "not_image", vision |-> "text"]},
     outputs |-> StageOutputs,
     matches |-> {<<>>},
     times |-> {"09:00"},
     plans |-> {p \in SmallPlans : Len(p.tickets) = 1 /\ p.emails = <<>>}]

LaterTimes == {"09:01", "09:02"}

NextAssemble ==
    \/ \E r \in {"A"} : Step(r, AssembleInputs)
    \/ \E r \in {"A"}, now \in LaterTimes : Reassemble(r, now)

SpecAssemble == Init /\ [][NextAssemble]_vars

\* Two requests at once, up to the return of EvidenceStorage.save: each
\* uploads up to MaxFiles files, named alike or not named.
SaveInputs ==
    [incidents |-> {[kind |-> "absent"]},
     messages |-> {None},
     files |-> SeqsUpTo({u \in Storable : u.size = MaxBytes}, MaxFiles),
     ids |-> Tokens,
     keys |-> Tokens]

NextSave ==
    \E r \in Runs :
        \/ /\ pc[r] = "start"
           /\ \E inc \in SaveInputs.incidents, msg \in SaveInputs.messages,
                 files \in SaveInputs.files :
                   Receive(r, inc, msg, files)
        \/ /\ pc[r] = "save"
           /\ \E id \in SaveInputs.ids, tokens \in [1..Len(uploads[r]) -> SaveInputs.keys] :
                   SaveEvidence(r, id, tokens)

SpecSave == Init /\ [][NextSave]_vars

\* A payload that names an attachment of its own: the url of a file of an
\* earlier incident.
PayloadWithAttachment ==
    [title |-> "Spill in bay 4",
     description |-> <<"Solvent spill", "contained by staff">>,
     attachments |-> << [incident_id |-> 0, key |-> <<"f", "_", "a">>] >>]

\* Requests with no evidence file, with files above the ceiling only, and
\* with files at the ceiling, on a payload with and without attachments of
\* its own and on a message.
NoEvidenceInputs ==
    [incidents |-> {[kind |-> "absent"],
                    [kind |-> "valid", report |-> PayloadWithAttachment]}
                       \cup {[kind |-> "valid", report |-> p] : p \in ValidPayloads},
     messages |-> {None, Some(<<"Forklift near miss", "at dock 2">>)},
     files |-> SeqsUpTo({u \in Storable : u.size >= MaxBytes /\ u.filename # <<>>},
                        MaxFiles),
     ids |-> {1},
     keys |-> Tokens,
     cases |-> {[file |-> "not_image", vision |-> "text"]},
     outputs |-> {"out-a"},
     matches |-> {<<>>},
     times |-> {"09:00"},
     plans |-> {p \in SmallPlans : Len(p.tickets) = 1 /\ p.emails = <<>>}]

NextNoEvidence == \E r \in {"A"} : Step(r, NoEvidenceInputs)

SpecNoEvidence == Init /\ [][NextNoEvidence]_vars

\* The workflow run under the scheduling of the event loop: a coroutine that
\* can go on is resumed, a call of an agent (for the corrective agent, the
\* query of the vector memory included) returns or raises, and the
\* notification execution returns.
RunFairness ==
    \A r \in {"A"} :
        /\ WF_vars(RunStart(r) \/ NodeEnter(r) \/ Respond(r)
                      \/ \E now \in NoEvidenceInputs.times : GraphEnd(r, now))
        /\ WF_vars(\/ \E matches \in NoEvidenceInputs.matches : PolicyQuery(r, matches)
                   \/ \E v \in NoEvidenceInputs.outputs : AgentReturn(r, v)
                   \/ \E p \in NoEvidenceInputs.plans : PlanReturn(r, p)
                   \/ AgentRaise(r))
        /\ WF_vars(/\ pc[r] = "execute"
                   /\ \E tids \in [1..Len(The(plan[r]).tickets) -> Tokens],
                         mids \in [1..Len(The(plan[r]).emails) -> Tokens] :
                           NotifyExecute(r, tids, mids))

SpecTerminate == Init /\ [][NextNoEvidence]_vars /\ RunFairness

\* _sanitize_filename on every name of up to MaxNameLen characters.
MaxNameLen == 3
Names == SeqsUpTo(Chars, MaxNameLen)

InitSanitize ==
    /\ InitRequests
    /\ served = None
    /\ given_name \in Names
    /\ safe_name = None

NextSanitize == Sanitize

SpecSanitize == InitSanitize /\ [][NextSanitize]_vars

(***************************************************************************)
(* Properties of the pipeline                                              *)
(***************************************************************************)
\* The stage sequence of the specification, and the state key that holds
\* the output of each stage.
StageOrder == <<"intake", "triage", "root_cause", "corrective", "notify">>
StageKey == <<"intake", "triage", "root_cause", "corrective_actions", "notifications">>
StageIndex(n) == CHOOSE k \in 1..Len(StageOrder) : StageOrder[k] = n

IsPrefix(s, t) == Len(s) <= Len(t) /\ \A i \in 1..Len(s) : s[i] = t[i]
CalledStages(r) == [i \in 1..Len(called[r]) |-> called[r][i].stage]
NoDuplicates(s) == \A i, j \in 1..Len(s) : s[i] = s[j] => i = j

\* Stage k of run r has completed without error: its agent returned and,
\* for the last stage, the notification execution returned too.
Completed(r, k) ==
    /\ StageOrder[k] \in DOMAIN returned[r]
    /\ k = Len(StageOrder) => "execute" \in DOMAIN returned[r]

\* C1: the stages of a run are started in the order intake, triage,
\* root-cause, corrective-action, notification-planning, none skipped; when
\* stage k+1 is started, stage k has returned and its output is in the
\* workflow state, which is where stage k+1 reads it from.
C1_StagesInFixedOrder ==
    \A r \in Runs :
        /\ IsPrefix(started[r], StageOrder)
        /\ IsPrefix(CalledStages(r), StageOrder)
        /\ pc[r] \in {"end", "respond", "done"} => started[r] = StageOrder
        /\ \A k \in 2..Len(started[r]) :
              /\ StageOrder[k - 1] \in DOMAIN returned[r]
              /\ StageKey[k - 1] \in DOMAIN state[r]
              /\ state[r][StageKey[k - 1]] = returned[r][StageOrder[k - 1]]
              /\ k <= Len(called[r]) /\ StageKey[k - 1] \in NodeReads(StageOrder[k]) =>
                    called[r][k].args[StageKey[k - 1]] = returned[r][StageOrder[k - 1]]

C1_Witness ==
    /\ started["A"] = StageOrder
    /\ Len(called["A"]) = 5
    /\ pc["A"] = "done"

\* C2: a run in which a stage function raised returns no report, complete
\* or partial: the request is answered with a failure.
C2_FailedRunReturnsNoReport ==
    \A r \in Runs :
        IsSome(raised[r]) =>
            /\ IsNone(result[r])
            /\ response[r] = 500
            /\ pc[r] = "failed"

C2_Witness ==
    /\ raised["A"] = Some("root_cause")
    /\ {"intake", "triage"} \subseteq DOMAIN state["A"]
    /\ response["A"] = 500

\* C3: a report that a run returns carries the output of all five stages,
\* each the value its stage produced in this run, and the submitted report
\* as its incident.
C3_ReturnedReportComplete ==
    \A r \in Runs :
        IsSome(result[r]) =>
            LET res == The(result[r])
            IN  /\ {"incident", "intake", "triage", "root_cause",
                    "corrective_actions", "notifications"} \subseteq DOMAIN res
                /\ \A k \in 1..Len(StageOrder) : Completed(r, k)
                /\ res.intake = returned[r]["intake"]
                /\ res.triage = returned[r]["triage"]
                /\ res.root_cause = returned[r]["root_cause"]
                /\ res.corrective_actions = returned[r]["corrective"]
                /\ res.notifications = returned[r]["execute"]
                /\ res.incident = The(report[r])
                /\ res.incident = called[r][1].args["report"]

C3_Witness ==
    /\ IsSome(result["A"])
    /\ response["A"] = 200
    /\ The(result["A"]).intake # The(result["A"]).triage
    /\ The(result["A"]).notifications.tickets # <<>>

\* C4: at every point of a run, the output of stage k is in the workflow
\* state exactly when stages 1..k have all completed without error.
C4_OutputsArePrefix ==
    \A r \in Runs :
        \A k \in 1..Len(StageOrder) :
            StageKey[k] \in DOMAIN state[r] <=> \A j \in 1..k : Completed(r, j)

C4_Witness ==
    /\ pc["A"] = "agent"
    /\ node["A"] = "root_cause"
    /\ DOMAIN state["A"] = {"report", "intake", "triage"}

\* C5: when the function of stage k raises, no stage after k is invoked in
\* that run, and NotificationService.execute is invoked only after all five
\* stage functions have returned.
C5_HaltsOnFirstFailure ==
    \A r \in Runs :
        /\ IsSome(raised[r]) =>
              /\ Len(called[r]) = StageIndex(The(raised[r]))
              /\ Len(started[r]) = StageIndex(The(raised[r]))
              /\ executed[r] = <<>>
        /\ executed[r] # <<>> =>
              /\ IsNone(raised[r])
              /\ \A k \in 1..Len(StageOrder) : StageOrder[k] \in DOMAIN returned[r]

C5_Witness ==
    /\ raised["A"] = Some("triage")
    /\ Len(called["A"]) = 2
    /\ pc["A"] = "failed"

\* C6: in one run each stage function is invoked at most once, whether it
\* failed or succeeded.
C6_EachStageAtMostOnce ==
    \A r \in Runs :
        /\ NoDuplicates(started[r])
        /\ NoDuplicates(CalledStages(r))
        /\ Len(executed[r]) <= 1

C6_Witness ==
    \/ /\ pc["A"] = "done"
       /\ response["A"] = 200
       /\ Len(called["A"]) = Len(StageOrder)
    \/ /\ raised["A"] = Some("notify")
       /\ Len(called["A"]) = Len(StageOrder)

\* C7: the last node executes the plan its agent returned before the graph
\* ends, and what the final state and the report hold as notifications is
\* the NotificationResult of that execution, whose plan is the planned one.
C7_NotificationsAreExecutedResult ==
    \A r \in Runs :
        /\ pc[r] \in {"end", "respond", "done"} => Len(executed[r]) = 1
        /\ executed[r] # <<>> => executed[r] = <<returned[r]["notify"]>>
        /\ "notifications" \in DOMAIN state[r] =>
              /\ DOMAIN state[r]["notifications"] = {"plan", "tickets", "emails", "notes"}
              /\ state[r]["notifications"].plan = returned[r]["notify"]
              /\ state[r]["notifications"] = returned[r]["execute"]
        /\ IsSome(result[r]) =>
              /\ DOMAIN The(result[r]).notifications = {"plan", "tickets", "emails", "notes"}
              /\ The(result[r]).notifications.plan = returned[r]["notify"]
              /\ The(result[r]).notifications = returned[r]["execute"]

C7_Witness ==
    /\ pc["A"] = "respond"
    /\ IsSome(result["A"])
    /\ The(result["A"]).notifications.plan.emails # <<>>
    /\ The(result["A"]).notifications.emails # <<>>

(***************************************************************************)
(* Properties of the notification execution                                *)
(***************************************************************************)
\* C8: execute returns one receipt per request of the plan, in the order of
\* the plan: the lists have the lengths of the plan's lists and receipt i
\* carries request i.
C8_OneReceiptPerRequestInOrder ==
    \A r \in Runs :
        "execute" \in DOMAIN returned[r] =>
            LET p == executed[r][1]
                res == returned[r]["execute"]
            IN  /\ res.plan = p
                /\ Len(res.tickets) = Len(p.tickets)
                /\ Len(res.emails) = Len(p.emails)
                /\ \A i \in 1..Len(p.tickets) : res.tickets[i].request = p.tickets[i]
                /\ \A i \in 1..Len(p.emails) :
                      /\ res.emails[i].request = p.emails[i]
                      /\ res.emails[i].recipient = p.emails[i].recipient

C8_Witness ==
    /\ "execute" \in DOMAIN returned["A"]
    /\ Len(returned["A"]["execute"].tickets) = 2
    /\ Len(returned["A"]["execute"].emails) = 2
    /\ returned["A"]["execute"].tickets[1].request # returned["A"]["execute"].tickets[2].request
    /\ returned["A"]["execute"].emails[1].request # returned["A"]["execute"].emails[2].request

(***************************************************************************)
(* Properties of the evidence fan-out                                      *)
(***************************************************************************)
\* The request of run r was accepted: its report has been prepared.
Accepted(r) == IsSome(report[r])

\* The fan-out of run r has been joined.
Joined(r) == tasks[r] # <<>> /\ pc[r] # "gather"

\* The tasks ended in another order than they were started in.
OutOfOrder(r) == \E i, j \in 1..Len(done[r]) : i < j /\ done[r][i] > done[r][j]

\* Position by position, the result list holds the outcome of the task
\* that analysed the file of the item at that position.
PositionalJoin(r) ==
    /\ Len(tasks[r]) = Len(records[r])
    /\ Len(analyses[r]) = Len(records[r])
    /\ \A i \in 1..Len(records[r]) :
          /\ tasks[r][i].path =
                Resolve(IncidentDir(The(incident_id[r])), records[r][i].rel_name)
          /\ analyses[r][i] = The(tasks[r][i].outcome)

\* C10 as stated: after the join, result[i] is the outcome of the task of
\* item i, and the analysis of item i is result[i].
C10_AnalysisIsResult ==
    \A r \in Runs :
        Joined(r) =>
            /\ PositionalJoin(r)
            /\ \A i \in 1..Len(records[r]) :
                  records[r][i].item.analysis = Some(analyses[r][i].value)

\* C10, amended: after the join, the result list has one entry per stored
\* item, result[i] is the outcome of the task of item i whatever the order
\* in which the tasks ended and whichever failed; the analysis of item i is
\* result[i] when that is a string and "Analysis failed." when the task
\* ended with an exception.
C10_FanOutPositional ==
    \A r \in Runs :
        Joined(r) =>
            /\ PositionalJoin(r)
            /\ \A i \in 1..Len(records[r]) :
                  records[r][i].item.analysis =
                      Some(IF analyses[r][i].exc THEN "Analysis failed."
                           ELSE analyses[r][i].value)

C10_Witness ==
    /\ Joined("A")
    /\ Len(records["A"]) = 2
    /\ OutOfOrder("A")
    /\ analyses["A"][1].exc
    /\ ~analyses["A"][2].exc
    /\ records["A"][2].item.analysis = Some(analyses["A"][2].value)

\* A task of run r ended with an exception.
TaskFailed(r, i) == IsSome(tasks[r][i].outcome) /\ The(tasks[r][i].outcome).exc

\* After the join, the item of every failed task carries "Analysis failed."
\* and the request goes on: it fails only if a stage of the pipeline raises.
FailureConverted(r) ==
    /\ Joined(r) =>
          \A i \in 1..Len(tasks[r]) :
              TaskFailed(r, i) => records[r][i].item.analysis = Some("Analysis failed.")
    /\ (\E i \in 1..Len(tasks[r]) : TaskFailed(r, i)) =>
          /\ pc[r] = "failed" => IsSome(raised[r])
          /\ response[r] = 500 => IsSome(raised[r])

\* C11: in the fan-out, a step changes the outcome of at most one task,
\* never the outcome a task already has, whether the task that ends fails or
\* not; and a failed task becomes "Analysis failed." in its item instead
\* of failing the request.
C11_TaskFailureIsolated ==
    [][\A r \in Runs :
          /\ Len(tasks'[r]) = Len(tasks[r]) =>
                /\ \A i \in 1..Len(tasks[r]) :
                      IsSome(tasks[r][i].outcome) => tasks'[r][i] = tasks[r][i]
                /\ Cardinality({i \in 1..Len(tasks[r]) : tasks'[r][i] # tasks[r][i]}) <= 1
          /\ FailureConverted(r)']_vars

C11_Witness ==
    /\ Joined("A")
    /\ done["A"] = <<1, 2>>
    /\ TaskFailed("A", 1)
    /\ ~TaskFailed("A", 2)
    /\ records["A"][1].item.analysis = Some("Analysis failed.")
    /\ records["A"][2].item.analysis = Some(The(tasks["A"][2].outcome).value)
    /\ started["A"] # <<>>

\* C13: whatever analyse finds at its path and whatever the vision model
\* does, the call returns a string, and not the empty one: no analysis task
\* ends with an exception.
C13_AnalyseNeverRaises ==
    \A r \in Runs :
        \A i \in 1..Len(tasks[r]) :
            IsSome(tasks[r][i].outcome) =>
                /\ ~The(tasks[r][i].outcome).exc
                /\ The(tasks[r][i].outcome).value # ""

\* How many times the evidence insights were merged into a description:
\* the number of its heading lines.
Merges(description) ==
    Cardinality({i \in 1..Len(description) : description[i] = "Evidence Insights:"})

\* Every analysis task of run r has ended and gather has returned.
FanOutJoined(r) ==
    /\ Joined(r)
    /\ Len(analyses[r]) = Len(tasks[r])
    /\ \A i \in 1..Len(tasks[r]) : IsSome(tasks[r][i].outcome)

\* C14: the analysis texts are merged into the description of the report at
\* most once; when they are in it, every task of the fan-out has been joined;
\* and when the intake stage is started they are in it exactly once (for a
\* request with stored evidence), in the very report the stage is called with.
C14_MergedOnceBeforeIntake ==
    \A r \in Runs :
        Accepted(r) =>
            LET merges == Merges(The(report[r]).description)
            IN  /\ merges <= 1
                /\ merges = 1 =>
                      /\ FanOutJoined(r)
                      /\ pc[r] \notin {"start", "save", "spawn", "gather", "attach"}
                /\ started[r] # <<>> =>
                      merges = IF records[r] # <<>> THEN 1 ELSE 0
                /\ called[r] # <<>> =>
                      called[r][1].args["report"] = The(report[r])

C14_Witness ==
    /\ pc["A"] = "agent"
    /\ node["A"] = "intake"
    /\ Len(records["A"]) = 2
    /\ Merges(called["A"][1].args["report"].description) = 1
    /\ Len(The(report["A"]).description) = 5

\* C15: from the start of the first stage on, the report is the one that
\* stage was called with: the handler's report, the report in the workflow
\* state and the report every later stage is called with are equal to it, and
\* so is the incident of the terminal report.
C15_ReportFrozenOncePipelineStarted ==
    \A r \in Runs :
        called[r] # <<>> =>
            LET at_start == called[r][1].args["report"]
            IN  /\ The(report[r]) = at_start
                /\ state[r]["report"] = at_start
                /\ \A k \in 1..Len(called[r]) : called[r][k].args["report"] = at_start
                /\ IsSome(result[r]) => The(result[r]).incident = at_start

C15_Witness ==
    /\ pc["A"] = "done"
    /\ response["A"] = 200
    /\ Len(called["A"]) = Len(StageOrder)
    /\ The(result["A"]).incident.attachments # <<>>
    /\ Merges(The(result["A"]).incident.description) = 1

C12_EvidenceErrorsNotFatal ==
    \A r \in Runs :
        Accepted(r) /\ pc[r] = "failed" => started[r] # <<>>

\* The upload is within the size ceiling of the storage.
WithinCeiling(upload) == upload.size <= MaxBytes

\* The uploads of run r that are within the ceiling, in upload order.
Kept(r) == SelectSeq(uploads[r], WithinCeiling)

\* C17: the evidence list of the report that is rendered is the list of the
\* stored items: one item per upload within the ceiling, in upload order,
\* each with the analysis the fan-out wrote into it.
C17_RenderedEvidenceIsStoredItems ==
    \A r \in Runs :
        pc[r] = "done" =>
            LET evidence == The(result[r]).evidence
            IN  /\ Len(evidence) = Len(Kept(r))
                /\ Len(evidence) = Len(records[r])
                /\ \A i \in 1..Len(evidence) :
                      /\ evidence[i] = records[r][i].item
                      /\ evidence[i].size_bytes = Kept(r)[i].size
                      /\ Kept(r)[i].filename # <<>> =>
                            evidence[i].filename = Kept(r)[i].filename
                      /\ evidence[i].url.key = records[r][i].rel_name
                      /\ IsSome(evidence[i].analysis)
                      /\ evidence[i].analysis = Some(AnalysisText(analyses[r][i]))

C17_Witness ==
    /\ pc["A"] = "done"
    /\ Len(uploads["A"]) = 2
    /\ Len(The(result["A"]).evidence) = 2
    /\ The(result["A"]).evidence[1].size_bytes = MaxBytes
    /\ The(result["A"]).evidence[2].size_bytes = MaxBytes - 1
    /\ IsSome(The(result["A"]).evidence[2].analysis)

\* save of run r ended with an exception: the request failed after the
\* incident id was drawn and before a stage was started.
StoreFailed(r) == pc[r] = "failed" /\ IsSome(incident_id[r]) /\ started[r] = <<>>

\* save of run r has returned.
SaveReturned(r) == IsSome(incident_id[r]) /\ ~StoreFailed(r)

\* The files under the storage directory of the incident of run r.
IncidentFiles(r) == {f \in disk : f[1] = The(incident_id[r])}

\* C18: a call of save whose uploads run into no storage fault returns,
\* oversized uploads or not; when save has returned, its records are the
\* uploads within the ceiling, in order, and the files under the directory of
\* the incident are exactly the files of these records: every upload within
\* the ceiling has its file, no upload above it has left one.
C18_OversizedDroppedWithoutTrace ==
    \A r \in Runs :
        /\ IsSome(incident_id[r]) /\ (\A i \in 1..Len(uploads[r]) : uploads[r][i].fault = "none")
              => ~StoreFailed(r)
        /\ SaveReturned(r) =>
              /\ Len(records[r]) = Len(Kept(r))
              /\ \A k \in 1..Len(records[r]) :
                    /\ records[r][k].item.size_bytes = Kept(r)[k].size
                    /\ Kept(r)[k].filename # <<>> =>
                          records[r][k].item.filename = Kept(r)[k].filename
              /\ IncidentFiles(r) =
                    {<<The(incident_id[r]), records[r][k].rel_name>> : k \in 1..Len(records[r])}
              /\ Cardinality(IncidentFiles(r)) = Len(records[r])

C18_Witness ==
    /\ pc["A"] = "spawn"
    /\ Len(uploads["A"]) = 2
    /\ uploads["A"][1].size = MaxBytes + 1
    /\ uploads["A"][2].size = MaxBytes
    /\ Len(records["A"]) = 1
    /\ records["A"][1].item.size_bytes = MaxBytes
    /\ Cardinality(IncidentFiles("A")) = 1

\* The characters of [A-Za-z0-9._-]: the ASCII letters and digits of the
\* names, the letters of the default name, and the three punctuation marks.
SafeChars ==
    AsciiAlnum \cup {DefaultName[i] : i \in 1..Len(DefaultName)} \cup Punct

\* C19: whatever name _sanitize_filename is called with, the name it
\* returns is not empty and has characters of [A-Za-z0-9._-] only.
C19_SanitizedNameIsSafe ==
    IsSome(safe_name) =>
        /\ The(safe_name) # <<>>
        /\ \A i \in 1..Len(The(safe_name)) : The(safe_name)[i] \in SafeChars

(***************************************************************************)
(* Properties of the evidence endpoint                                     *)
(***************************************************************************)
\* The storage root as an absolute path, and the requests that resolve to a
\* path that is not under it.
AbsoluteRoot == Cwd \o StorageRoot.parts
Under(parts, dir) == Len(dir) <= Len(parts) /\ SubSeq(parts, 1, Len(dir)) = dir
Escapes(incident, filename) == ~Under(Resolve(incident, filename).parts, AbsoluteRoot)

\* C20: get_evidence answers 200 or 404; a request whose resolved path is
\* not under the storage root is answered 404 and no file, and a file that
\* is answered lies under the storage root.
C20_NoFileOutsideRoot ==
    IsSome(served) =>
        LET answer == The(served)
        IN  /\ answer.status \in {200, 404}
            /\ Escapes(answer.incident_id, answer.filename) =>
                  /\ answer.status = 404
                  /\ IsNone(answer.path)
            /\ answer.status = 200 =>
                  /\ IsSome(answer.path)
                  /\ Under(The(answer.path).parts, AbsoluteRoot)

C20_Witness ==
    /\ IsSome(served)
    /\ The(served).incident_id = DotDot
    /\ The(served).filename = <<"notes">>
    /\ IsFile(Resolve(DotDot, <<"notes">>), disk)
    /\ Escapes(DotDot, <<"notes">>)
    /\ The(served).status = 404
    /\ disk # {}

(***************************************************************************)
(* Properties of the validation of the request                             *)
(***************************************************************************)
\* The request gives no report, no message and no evidence.
NoInput(req) ==
    req.incident.kind = "absent" /\ IsNone(req.message) /\ req.files = <<>>

\* The request gives a report payload that is no valid IncidentReport.
Malformed(req) == req.incident.kind = "invalid"

\* Nothing was done for run r: save was not called (no incident id was
\* drawn, no file and no record exists), no analysis task was created and no
\* node function, agent, query or notification execution was started.
NoWorkDone(r) ==
    /\ IsNone(incident_id[r])
    /\ uploads[r] = <<>>
    /\ records[r] = <<>>
    /\ tasks[r] = <<>>
    /\ done[r] = <<>>
    /\ (\A q \in Runs \ {r} : IsNone(incident_id[q])) => disk = {}
    /\ started[r] = <<>>
    /\ called[r] = <<>>
    /\ queried[r] = <<>>
    /\ executed[r] = <<>>
    /\ state[r] = EmptyMap
    /\ IsNone(result[r])

\* C21: a request with no report, no message and no evidence, and a request
\* with a malformed report payload (whatever else it carries), is answered
\* 400, and nothing is done for it: no file is stored, no analysis task is
\* started, no stage is invoked.  No other request is answered 400.
C21_ValidationBeforeWork ==
    \A r \in Runs :
        IsSome(request[r]) =>
            /\ NoInput(The(request[r])) \/ Malformed(The(request[r])) =>
                  /\ pc[r] = "failed"
                  /\ response[r] = 400
                  /\ IsNone(report[r])
                  /\ NoWorkDone(r)
            /\ response[r] = 400 =>
                  NoInput(The(request[r])) \/ Malformed(The(request[r]))

C21_Witness ==
    /\ IsSome(request["A"])
    /\ Malformed(The(request["A"]))
    /\ The(request["A"]).files # <<>>
    /\ IsSome(The(request["A"]).message)
    /\ response["A"] = 400

(***************************************************************************)
(* Properties of concurrent requests                                       *)
(***************************************************************************)
\* Everything the process holds for run r.
RunVars(r) ==
    <<pc[r], uploads[r], report[r], incident_id[r], records[r], tasks[r],
      analyses[r], state[r], node[r], plan[r], result[r], response[r], done[r],
      started[r], called[r], returned[r], raised[r], executed[r], request[r],
      queried[r], context[r]>>

\* Run r failed for a reason of its own: its request was rejected, or one of
\* its own stages raised.
OwnFailure(r) ==
    pc[r] = "failed" \/ response[r] \notin {0, 200} =>
        \/ response[r] = 400 /\ IsNone(report[r])
        \/ response[r] = 500 /\ IsSome(raised[r])

\* The report of run r, the workflow state of run r and what the stages of
\* run r were called with hold nothing but the report of r's own request and
\* the outputs the agents gave in run r.
OwnData(r) ==
    /\ Accepted(r) =>
          The(report[r]).title =
              The(PrepareIncidentReport(The(request[r]).incident,
                                        The(request[r]).message)).title
    /\ \A k \in 1..Len(called[r]) :
          \A key \in DOMAIN called[r][k].args :
              called[r][k].args[key] =
                  IF key = "report" THEN The(report[r]) ELSE <<"out", r>>
    /\ \A key \in DOMAIN state[r] :
          /\ key = "report" => state[r][key] = The(report[r])
          /\ key \in {"intake", "triage", "root_cause", "corrective_actions"} =>
                state[r][key] = <<"out", r>>
          /\ key = "notifications" => state[r][key] = returned[r]["execute"]
    /\ IsSome(result[r]) =>
          /\ The(result[r]).incident = The(report[r])
          /\ \A key \in {"intake", "triage", "root_cause", "corrective_actions"} :
                The(result[r])[key] = <<"out", r>>
          /\ The(result[r]).notifications = returned[r]["execute"]
          /\ The(result[r]).evidence \in {<<>>, EvidenceModels(records[r])}

\* Run r can take its next step: nothing another run did stands in its way.
NotBlocked(r) ==
    pc[r] \notin {"done", "failed"} => ENABLED Step(r, ConcurrentInputs(r))

\* C22: a step changes what the process holds for at most one run; a run
\* fails only when its own request is rejected or one of its own stages
\* raises, whatever became of the other run; and what a run's stages are
\* called with, its workflow state and its report hold only its own report
\* and the outputs of its own stages.
C22_FailureAbortsOnlyItsRun ==
    [][/\ Cardinality({r \in Runs : RunVars(r)' # RunVars(r)}) <= 1
       /\ \A r \in Runs : NotBlocked(r) /\ OwnFailure(r)' /\ OwnData(r)']_vars

C22_Witness ==
    /\ raised["A"] = Some("triage")
    /\ pc["A"] = "failed"
    /\ response["A"] = 500
    /\ pc["B"] = "done"
    /\ response["B"] = 200
    /\ The(result["B"]).intake = <<"out", "B">>
    /\ The(result["B"]).incident.title = "Forklift near miss"
    /\ Len(The(result["B"]).evidence) = 1

\* The uploads the storage has stored, as run and position, and the path
\* each was written to.
Stored == {s \in Runs \X (1..MaxFiles) : s[2] <= Len(records[s[1]])}
StoragePath(id, rel_name) == Resolve(IncidentDir(id), rel_name)
PathOf(s) == StoragePath(The(incident_id[s[1]]), records[s[1]][s[2]].rel_name)

\* C23: the incident ids of the requests being different, no two stored
\* uploads, of one request or of two, were written to the same path, whatever
\* their original names; the uploads of one incident have different storage
\* keys; and storage holds one file per stored upload, none was overwritten.
C23_StoragePathsDistinct ==
    /\ \A r, q \in Runs :
          IsSome(incident_id[r]) /\ incident_id[r] = incident_id[q] => r = q
    /\ \A s, t \in Stored : PathOf(s) = PathOf(t) => s = t
    /\ \A r \in Runs : \A i, j \in 1..Len(records[r]) :
          records[r][i].rel_name = records[r][j].rel_name => i = j
    /\ {StoragePath(f[1], f[2]) : f \in disk} = {PathOf(s) : s \in Stored}
    /\ Cardinality({StoragePath(f[1], f[2]) : f \in disk}) = Cardinality(Stored)

C23_Witness ==
    /\ Len(records["A"]) = 2
    /\ Len(records["B"]) = 2
    /\ \A s, t \in Stored : records[s[1]][s[2]].item.filename = <<"a", ".", "a">>
    /\ records["A"][1].rel_name = records["B"][1].rel_name
    /\ records["A"][2].rel_name = records["B"][2].rel_name
    /\ Cardinality(disk) = 4

(***************************************************************************)
(* Properties of the policy query                                          *)
(***************************************************************************)
\* C24: whatever the vector memory answers, the corrective stage goes on to
\* its model call (the answer fails nothing), and the policy text in the
\* prompt is not the empty string: for no match it is the "No policies
\* found" placeholder, for matches it is one "- <tag>: <document>" line per
\* match, in their order.
C24_PolicyContextNeverEmpty ==
    [][\A r \in Runs :
          /\ context'[r] # context[r] =>
                /\ pc[r] = "query"
                /\ pc'[r] = "agent"
                /\ IsNone(raised'[r])
                /\ response'[r] = 0
          /\ IsSome(context'[r]) =>
                LET matches == The(context'[r]).matches
                    policies == The(context'[r]).policies
                IN  /\ ~IsEmptyText(policies)
                    /\ matches = <<>> => policies = NoPolicies
                    /\ matches # <<>> =>
                          /\ Len(policies) = Len(matches)
                          /\ \A i \in 1..Len(matches) :
                                /\ policies[i][1] = "- "
                                /\ policies[i][2] \in {"PPE", "policy"}
                                /\ policies[i][4] = matches[i].document]_vars

C24_Witness ==
    /\ IsSome(context["A"])
    /\ The(context["A"]).matches = <<>>
    /\ The(context["A"]).policies = NoPolicies
    /\ "corrective" \in DOMAIN returned["A"]
    /\ pc["A"] = "done"

\* C29: the vector memory is queried by the corrective stage only, at most
\* once in a run and for NResults = 4 matches; when it is queried the
\* root-cause output is in the workflow state and the text of the query is
\* built from it; the model of the corrective stage is awaited, and the stage
\* returns, only after the query; a run that failed in an earlier stage has
\* made no query, and a run that completed has made exactly one.
C29_PolicyQueriedOnceByCorrective ==
    \A r \in Runs :
        /\ Len(queried[r]) <= 1
        /\ pc[r] = "query" => node[r] = "corrective" /\ queried[r] = <<>>
        /\ \A i \in 1..Len(queried[r]) :
              /\ queried[r][i].stage = "corrective"
              /\ queried[r][i].n_results = 4
              /\ "root_cause" \in DOMAIN state[r]
              /\ CalledStages(r)[Len(called[r])] \in {"corrective", "notify"}
              /\ queried[r][i].text =
                    The(report[r]).description
                        \o <<state[r]["intake"], state[r]["root_cause"]>>
        /\ node[r] = "corrective" /\ pc[r] = "agent" => Len(queried[r]) = 1
        /\ "corrective" \in DOMAIN returned[r] => Len(queried[r]) = 1
        /\ IsSome(raised[r]) /\ The(raised[r]) \in {"intake", "triage", "root_cause"} =>
              queried[r] = <<>>
        /\ pc[r] \in {"end", "respond", "done"} => Len(queried[r]) = 1
        /\ IsSome(context[r]) <=> queried[r] # <<>>

C29_Witness ==
    /\ pc["A"] = "done"
    /\ Len(queried["A"]) = 1
    /\ queried["A"][1].n_results = 4
    /\ Len(queried["A"][1].text) = 6
    /\ queried["A"][1].text[4] = "Unsupported evidence type (non-image)."
    /\ queried["A"][1].text[5] = returned["A"]["intake"]
    /\ queried["A"][1].text[6] = returned["A"]["root_cause"]
    /\ returned["A"]["intake"] # returned["A"]["root_cause"]

(***************************************************************************)
(* Properties of the assembly of the report                                *)
(***************************************************************************)
\* The collaborators' traces of run r: the stages entered, the agent calls
\* and what they returned, the queries of the vector memory, the executions
\* of the notification service; and what the assembly reads.
Collaborators(r) ==
    <<started[r], called[r], returned[r], raised[r], queried[r], context[r],
      executed[r], tasks[r], analyses[r]>>
AssemblyInputs(r) == <<report[r], state[r], records[r]>>

TicketReceipts ==
    {t \in Runs \X (1..(MaxItems + 1)) :
        /\ "execute" \in DOMAIN returned[t[1]]
        /\ t[2] <= Len(returned[t[1]]["execute"].tickets)}
EmailReceipts ==
    {e \in Runs \X (1..(MaxItems + 1)) :
        /\ "execute" \in DOMAIN returned[e[1]]
        /\ e[2] <= Len(returned[e[1]]["execute"].emails)}

\* C26: no two ticket receipts have the same ticket_id and no two email
\* receipts have the same message_id, within one result and across the
\* executions.
C26_IdentifiersUnique ==
    /\ \A s, t \in TicketReceipts :
          returned[s[1]]["execute"].tickets[s[2]].ticket_id =
              returned[t[1]]["execute"].tickets[t[2]].ticket_id => s = t
    /\ \A d, e \in EmailReceipts :
          returned[d[1]]["execute"].emails[d[2]].message_id =
              returned[e[1]]["execute"].emails[e[2]].message_id => d = e

(***************************************************************************)
(* Properties of the evidence endpoint: the stored items                   *)
(***************************************************************************)
\* C27: a request for the url of a stored evidence item whose file is on
\* storage is answered 200 with the file of the item.
C27_StoredItemIsServed ==
    IsSome(served) =>
        \A f \in disk :
            /\ The(served).incident_id = IncidentDir(f[1])
            /\ The(served).filename = f[2]
            => /\ The(served).status = 200
               /\ The(served).path = Some(Resolve(IncidentDir(f[1]), f[2]))

(***************************************************************************)
(* Properties of the evidence insights                                     *)
(***************************************************************************)
\* The description the request of run r came with, before any evidence.
SubmittedDescription(r) ==
    The(PrepareIncidentReport(The(request[r]).incident,
                              The(request[r]).message)).description

\* The analysis text of item i of run r: what its task returned, or
\* "Analysis failed." when the task raised.
TextOfItem(r, i) ==
    IF The(tasks[r][i].outcome).exc THEN "Analysis failed."
    ELSE The(tasks[r][i].outcome).value

\* C28: once the evidence is attached, the description of the report is the
\* submitted description, an empty line, the heading "Evidence Insights:"
\* and one line per stored item with the analysis text of that item, in
\* upload order whatever the order in which the tasks ended; the analysis
\* field of item i holds the text of line i, and the attachments are the urls
\* of the items in the same order.
C28_InsightsInUploadOrder ==
    \A r \in Runs :
        Accepted(r) /\ records[r] # <<>>
            /\ pc[r] \notin {"start", "save", "spawn", "gather", "attach"} =>
            LET n == Len(records[r])
                texts == [i \in 1..n |-> TextOfItem(r, i)]
            IN  /\ Len(tasks[r]) = n
                /\ The(report[r]).description =
                      SubmittedDescription(r) \o <<"", "Evidence Insights:">> \o texts
                /\ \A i \in 1..n : records[r][i].item.analysis = Some(texts[i])
                /\ The(report[r]).attachments = [i \in 1..n |-> records[r][i].item.url]

C28_Witness ==
    /\ pc["A"] = "run"
    /\ Len(records["A"]) = 2
    /\ done["A"] = <<2, 1>>
    /\ TextOfItem("A", 1) = "Image PNG 4x4px. Analysis: wet floor"
    /\ TextOfItem("A", 2) = "Analysis failed."
    /\ Len(SubmittedDescription("A")) = 2
    /\ The(report["A"]).description[5] = "Image PNG 4x4px. Analysis: wet floor"
    /\ The(report["A"]).description[6] = "Analysis failed."

(***************************************************************************)
(* Properties of the workflow state                                        *)
(***************************************************************************)
\* The stage whose output the state holds under `key`.
StageOfKey(key) == StageOrder[CHOOSE j \in 1..Len(StageKey) : StageKey[j] = key]

\* C30: a step never removes a key of the workflow state nor changes its
\* value, the report included, and adds no key but the one of the node the
\* run is at; so every stage is called with the values the earlier stages
\* produced, and the report is built from them.
C30_StageWritesOnlyItsKey ==
    [][\A r \in Runs :
          /\ \A key \in DOMAIN state[r] :
                /\ key \in DOMAIN state'[r]
                /\ state'[r][key] = state[r][key]
          /\ DOMAIN state[r] # {} =>
                \A key \in DOMAIN state'[r] \ DOMAIN state[r] :
                    node[r] # END /\ key = OutKey(node[r])
          /\ \A k \in 1..Len(called'[r]) :
                \A key \in DOMAIN called'[r][k].args :
                    called'[r][k].args[key] =
                        IF key = "report" THEN The(report'[r])
                        ELSE returned'[r][StageOfKey(key)]
          /\ IsSome(result'[r]) =>
                /\ The(result'[r]).incident = state'[r]["report"]
                /\ \A key \in {"intake", "triage", "root_cause", "corrective_actions"} :
                      /\ The(result'[r])[key] = returned'[r][StageOfKey(key)]
                      /\ The(result'[r])[key] = state'[r][key]
                /\ The(result'[r]).notifications = returned'[r]["execute"]]_vars

C30_Witness ==
    /\ pc["A"] = "done"
    /\ DOMAIN state["A"] = {"report"} \cup ReportKeys
    /\ state["A"]["intake"] = "out-a"
    /\ state["A"]["triage"] = "out-b"
    /\ state["A"]["root_cause"] = "out-a"
    /\ called["A"][5].args["intake"] = "out-a"
    /\ called["A"][5].args["triage"] = "out-b"
    /\ The(result["A"]).intake = "out-a"
    /\ The(result["A"]).triage = "out-b"

(***************************************************************************)
(* Properties of the size ceiling                                          *)
(***************************************************************************)
\* The positions of the uploads of run r that save has a record for: the
\* k-th record is of the k-th upload that is not above the ceiling.
RECURSIVE StoredPositions(_, _)
StoredPositions(r, i) ==
    IF i > Len(uploads[r]) THEN <<>>
    ELSE IF uploads[r][i].size > MaxBytes THEN StoredPositions(r, i + 1)
    ELSE <<i>> \o StoredPositions(r, i + 1)

\* C33: the ceiling is inclusive.  When save has returned, an upload of
\* exactly max_bytes has a record with size_bytes = max_bytes, an upload has
\* no record exactly when its size is strictly above max_bytes, and the
\* records are those of the other uploads in upload order, each with
\* size_bytes the number of bytes written to its file.
C33_CeilingInclusive ==
    \A r \in Runs :
        SaveReturned(r) =>
            LET at == StoredPositions(r, 1)
            IN  /\ Len(records[r]) = Len(at)
                /\ \A i \in 1..Len(uploads[r]) :
                      /\ uploads[r][i].size = MaxBytes =>
                            \E k \in 1..Len(at) :
                                at[k] = i /\ records[r][k].item.size_bytes = MaxBytes
                      /\ (\A k \in 1..Len(at) : at[k] # i) <=>
                            uploads[r][i].size > MaxBytes
                /\ \A k \in 1..Len(at) :
                      /\ records[r][k].item.size_bytes = uploads[r][at[k]].size
                      /\ records[r][k].item.size_bytes =
                            BufferWritten(uploads[r][at[k]].size, 0, 0)
                      /\ \E t \in Tokens :
                            records[r][k].rel_name =
                                WriteFile(uploads[r][at[k]], t).rel_name
                      /\ <<The(incident_id[r]), records[r][k].rel_name>> \in disk
                /\ \A k1, k2 \in 1..Len(at) : k1 < k2 => at[k1] < at[k2]

C33_Witness ==
    /\ pc["A"] = "spawn"
    /\ Len(uploads["A"]) = 2
    /\ uploads["A"][1].size = MaxBytes
    /\ uploads["A"][2].size = MaxBytes + 1
    /\ uploads["A"][1].filename # uploads["A"][2].filename
    /\ Len(records["A"]) = 1
    /\ records["A"][1].item.size_bytes = MaxBytes
    /\ records["A"][1].item.filename = uploads["A"][1].filename

(***************************************************************************)
(* Properties of a request without stored evidence                         *)
(***************************************************************************)
\* save of run r has been called and no storage fault is in its way; it left
\* no record: no file was submitted, or every file was above the ceiling.
NothingStored(r) ==
    /\ Accepted(r)
    /\ IsSome(incident_id[r])
    /\ records[r] = <<>>

\* The report of run r as _prepare_incident_report built it.
PreparedReport(r) ==
    The(PrepareIncidentReport(The(request[r]).incident, The(request[r]).message))

\* C32: when save stored no item for a request, no analysis task is created
\* and none ends, the report keeps the description and the attachments it
\* was prepared with, the request fails only if a stage raises, every stage
\* is called with the report as prepared, and the report returned has an
\* empty evidence list.
C32_NoEvidenceLeavesReportAlone ==
    \A r \in Runs :
        NothingStored(r) =>
            /\ \A i \in 1..Len(uploads[r]) : uploads[r][i].size > MaxBytes
            /\ tasks[r] = <<>>
            /\ done[r] = <<>>
            /\ analyses[r] = <<>>
            /\ pc[r] \notin {"spawn", "gather"}
            /\ The(report[r]).description = PreparedReport(r).description
            /\ The(report[r]).attachments = PreparedReport(r).attachments
            /\ The(report[r]).title = PreparedReport(r).title
            /\ pc[r] = "failed" => started[r] # <<>> /\ raised[r] # <<>>
            /\ \A k \in 1..Len(called[r]) :
                  "report" \in DOMAIN called[r][k].args =>
                      called[r][k].args["report"] = PreparedReport(r)
            /\ IsSome(result[r]) =>
                  /\ The(result[r]).evidence = <<>>
                  /\ The(result[r]).incident = PreparedReport(r)

C32_Witness ==
    /\ pc["A"] = "done"
    /\ response["A"] = 200
    /\ Len(uploads["A"]) = 2
    /\ \A i \in 1..2 : uploads["A"][i].size = MaxBytes + 1
    /\ The(request["A"]).incident = [kind |-> "valid", report |-> PayloadWithAttachment]
    /\ tasks["A"] = <<>>
    /\ Len(called["A"]) = 5
    /\ The(result["A"]).evidence = <<>>
    /\ The(result["A"]).incident = PayloadWithAttachment
    /\ disk = {}

(***************************************************************************)
(* Termination of the workflow run                                         *)
(***************************************************************************)
\* The request of run r has been answered: with the report, or with an error.
Terminated(r) == pc[r] \in {"done", "failed"}

\* C31: a run starts at most as many stages as the graph has nodes, calls at
\* most as many agents and executes the notifications at most once; and, the
\* calls of the agents and the notification execution returning or raising,
\* a workflow run that is started ends: the request is answered with the
\* report or has failed.
C31_RunTerminates ==
    /\ [](\A r \in Runs :
             /\ Len(started[r]) <= Len(StageOrder)
             /\ Len(called[r]) <= Len(StageOrder)
             /\ Len(executed[r]) <= 1)
    /\ \A r \in Runs : (pc[r] = "run") ~> Terminated(r)

C31_Witness ==
    /\ pc["A"] = "done"
    /\ response["A"] = 200
    /\ started["A"] = StageOrder
    /\ Len(called["A"]) = Len(StageOrder)
    /\ Len(executed["A"]) = 1
    /\ IsSome(result["A"])

====
